---- MODULE Spec2Model ----
(***************************************************************************)
(* A model of the resolver of friends-lang                                 *)
(* (try-friends/src/core/evaluating.ts): terms and propositions, the       *)
(* substitution environment with unification, the knowledge base, and the  *)
(* lazy depth-first prover with cut, executed as a machine of generator    *)
(* frames.                                                                 *)
(***************************************************************************)
EXTENDS Integers, Sequences, FiniteSets, TLC

VARIABLES
  count,      \* nextVarId's closed-over counter
  systems,    \* the ImplProofSystem instances created so far (their knowledge)
  call,       \* the last facade call (assume / query) and how it ended
  stack,      \* the live generator objects of the running query, oldest first
  ctl,        \* where control is: which frame runs next and what it is handed
  out,        \* the solutions the consumer has received from the running query
  committed,  \* history: per provePred frame, the cut proved in its current body
  uenv,       \* Env under test in the unification harness
  ucall       \* the last Env.tryUnify call of the harness and how it ended

vars == <<count, systems, call, stack, ctl, out, committed, uenv, ucall>>

(***************************************************************************)
(* Bounds of the model.                                                    *)
(***************************************************************************)
\* nextVarId is not called once the counter has reached this value
MaxVarId == 9
\* number of chained Env.tryUnify calls of the unification harness
MaxCalls == 2

(***************************************************************************)
(* Terms (ast.ts Term): a variable {var: {varId, varName}}, an atom, an    *)
(* application {f, x}, a cons cell {head, tail}.                           *)
(***************************************************************************)
VarT(varName, varId) == <<"var", varName, varId>>
AtomT(atom) == <<"atom", atom>>
AppT(f, x) == <<"app", f, x>>
ConsT(head, tail) == <<"cons", head, tail>>

IsVar(term) == term[1] = "var"
IsAtom(term) == term[1] = "atom"
IsApp(term) == term[1] = "app"
IsCons(term) == term[1] = "cons"

\* term.var of a variable term
VarOf(term) == [varName |-> term[2], varId |-> term[3]]

nilTerm == AtomT("nil")

\* What a call that never returns (unbounded recursion, ended by the host's
\* call-stack overflow) gives in place of a term.
Bottom == <<"diverge">>

RECURSIVE TermVars(_)
TermVars(term) ==
  IF IsVar(term) THEN <<VarOf(term)>>
  ELSE IF IsAtom(term) THEN <<>>
  ELSE IF IsApp(term) THEN TermVars(term[3])
  ELSE TermVars(term[2]) \o TermVars(term[3])

RECURSIVE TermWithVarId(_, _)
TermWithVarId(term, varId) ==
  IF IsVar(term) THEN VarT(term[2], varId)
  ELSE IF IsAtom(term) THEN term
  ELSE IF IsApp(term) THEN AppT(term[2], TermWithVarId(term[3], varId))
  ELSE ConsT(TermWithVarId(term[2], varId), TermWithVarId(term[3], varId))

(***************************************************************************)
(* Env: varName -> (varId -> Term), both levels partial.                   *)
(***************************************************************************)
EnvDefault == <<>>

\* The outcome of an operation that returns an Env, returns undefined, or
\* never returns.
Ok(env) == [st |-> "ok", env |-> env]
Undefined == [st |-> "undefined", env |-> EnvDefault]
Diverged == [st |-> "diverge", env |-> EnvDefault]

IsBound(env, v) ==
  /\ v.varName \in DOMAIN env
  /\ v.varId \in DOMAIN env[v.varName]

\* Env.tryFind, where IsBound(env, v); it returns undefined elsewhere
EnvTryFind(env, v) == env[v.varName][v.varId]

\* Env.substitute; `path` holds the variables whose bound terms the enclosing
\* calls are substituting: meeting one of them again is a recursion that
\* never ends.
RECURSIVE SubstituteOn(_, _, _)
SubstituteOn(env, term, path) ==
  IF IsVar(term) THEN
    IF ~IsBound(env, VarOf(term)) THEN term
    ELSE IF VarOf(term) \in path THEN Bottom
    ELSE SubstituteOn(env, EnvTryFind(env, VarOf(term)), path \cup {VarOf(term)})
  ELSE IF IsAtom(term) THEN term
  ELSE IF IsApp(term) THEN
    LET x == SubstituteOn(env, term[3], path)
    IN IF x = Bottom THEN Bottom ELSE AppT(term[2], x)
  ELSE
    LET head == SubstituteOn(env, term[2], path)
        tail == SubstituteOn(env, term[3], path)
    IN IF head = Bottom \/ tail = Bottom THEN Bottom ELSE ConsT(head, tail)

EnvSubstitute(env, term) == SubstituteOn(env, term, {})

\* Env.bind without its test for a variable bound to itself
EnvBindUnguarded(env, v, term) ==
  LET substTerm == EnvSubstitute(env, term)
      idMap == (v.varId :> substTerm)
               @@ (IF v.varName \in DOMAIN env THEN env[v.varName] ELSE <<>>)
  IN IF substTerm = Bottom THEN Diverged
     ELSE Ok((v.varName :> idMap) @@ env)

EnvBind(env, v, term) ==
  LET substTerm == EnvSubstitute(env, term)
      idMap == (v.varId :> substTerm)
               @@ (IF v.varName \in DOMAIN env THEN env[v.varName] ELSE <<>>)
  IN IF substTerm = Bottom THEN Diverged
     ELSE IF IsVar(substTerm) /\ VarOf(substTerm) = v THEN Ok(env)
     ELSE Ok((v.varName :> idMap) @@ env)

RECURSIVE EnvTryUnify(_, _, _)
RECURSIVE TryUnifyVar(_, _, _)
TryUnifyVar(env, v, term) ==
  IF ~IsBound(env, v) THEN EnvBind(env, v, term)
  ELSE LET bound == EnvSubstitute(env, EnvTryFind(env, v))
       IN IF bound = Bottom THEN Diverged ELSE EnvTryUnify(env, term, bound)

\* Env.tryUnify with the tails of two cons cells unified under env, not env2
TryUnifyTailsUnderEnv(env, lTerm, rTerm) ==
  IF IsVar(lTerm) THEN TryUnifyVar(env, VarOf(lTerm), rTerm)
  ELSE IF IsVar(rTerm) THEN TryUnifyVar(env, VarOf(rTerm), lTerm)
  ELSE IF IsAtom(lTerm) /\ IsAtom(rTerm) /\ lTerm[2] = rTerm[2] THEN Ok(env)
  ELSE IF IsApp(lTerm) /\ IsApp(rTerm) /\ lTerm[2] = rTerm[2] THEN
    EnvTryUnify(env, lTerm[3], rTerm[3])
  ELSE IF IsCons(lTerm) /\ IsCons(rTerm) THEN
    LET env2 == EnvTryUnify(env, lTerm[2], rTerm[2])
    IN IF env2.st # "ok" THEN env2
       ELSE EnvTryUnify(env, lTerm[3], rTerm[3])
  ELSE Undefined

EnvTryUnify(env, lTerm, rTerm) ==
  IF IsVar(lTerm) THEN TryUnifyVar(env, VarOf(lTerm), rTerm)
  ELSE IF IsVar(rTerm) THEN TryUnifyVar(env, VarOf(rTerm), lTerm)
  ELSE IF IsAtom(lTerm) /\ IsAtom(rTerm) /\ lTerm[2] = rTerm[2] THEN Ok(env)
  ELSE IF IsApp(lTerm) /\ IsApp(rTerm) /\ lTerm[2] = rTerm[2] THEN
    EnvTryUnify(env, lTerm[3], rTerm[3])
  ELSE IF IsCons(lTerm) /\ IsCons(rTerm) THEN
    LET env2 == EnvTryUnify(env, lTerm[2], rTerm[2])
    IN IF env2.st # "ok" THEN env2
       ELSE EnvTryUnify(env2.env, lTerm[3], rTerm[3])
  ELSE Undefined

(***************************************************************************)
(* The unification harness: Env.tryUnify called on terms of the unit       *)
(* tests' shapes, each call starting from the Env the last one returned.   *)
(***************************************************************************)
\* free(varName) of the test suite
free(varName) == VarT(varName, -1)

ULeaves == {free("x"), free("y"), AtomT("socrates"), AtomT("plato")}

\* listTerm of the test suite, for two terms
listTerm(first, second) == ConsT(first, ConsT(second, nilTerm))

UTerms ==
  ULeaves
  \cup {AppT("f", t) : t \in ULeaves}
  \cup {listTerm(free("x"), AtomT("plato")),
        listTerm(AtomT("socrates"), free("y")),
        listTerm(free("x"), free("y")),
        listTerm(free("y"), AppT("f", free("x"))),
        listTerm(AppT("f", free("y")), free("x"))}

InitUnify ==
  /\ uenv = EnvDefault
  /\ ucall = [n |-> 0, left |-> nilTerm, right |-> nilTerm, st |-> "none"]

UnifyCall(left, right) ==
  /\ ucall.n < MaxCalls
  /\ LET r == EnvTryUnify(uenv, left, right)
     IN /\ uenv' = IF r.st = "ok" THEN r.env ELSE uenv
        /\ ucall' = [n |-> ucall.n + 1, left |-> left, right |-> right, st |-> r.st]

(***************************************************************************)
(* Propositions and rules (ast.ts Prop, Rule): an atomic proposition       *)
(* {pred, term}, a conjunction {left, right}; a rule {head, goal?}.        *)
(***************************************************************************)
PredP(pred, term) == [pred |-> pred, term |-> term]
ConjP(left, right) == [left |-> left, right |-> right]
IsPredProp(prop) == "pred" \in DOMAIN prop

AxiomRule(head) == [head |-> head]
InferRule(head, goal) == [head |-> head, goal |-> goal]
HasGoal(rule) == "goal" \in DOMAIN rule

CutProp == PredP("!", nilTerm)
TrueProp == PredP("true", nilTerm)

RECURSIVE PropWithVarId(_, _)
PropWithVarId(prop, varId) ==
  IF IsPredProp(prop) THEN PredP(prop.pred, TermWithVarId(prop.term, varId))
  ELSE ConjP(PropWithVarId(prop.left, varId), PropWithVarId(prop.right, varId))

\* Prop.refresh, given the value nextVarId() returns
PropRefresh(prop, varId) == PropWithVarId(prop, varId)

RECURSIVE PropVars(_)
PropVars(prop) ==
  IF IsPredProp(prop) THEN TermVars(prop.term)
  ELSE PropVars(prop.left) \o PropVars(prop.right)

\* Rule.refresh, given the value nextVarId() returns
\* a refresh that renames the head and leaves the goal as it is
RuleRefreshHeadOnly(rule, varId) ==
  IF HasGoal(rule)
  THEN InferRule(PropWithVarId(rule.head, varId), rule.goal)
  ELSE AxiomRule(PropWithVarId(rule.head, varId))

RuleRefresh(rule, varId) ==
  IF HasGoal(rule)
  THEN InferRule(PropWithVarId(rule.head, varId), PropWithVarId(rule.goal, varId))
  ELSE AxiomRule(PropWithVarId(rule.head, varId))

\* distinct of ./iterable: the elements in first-occurrence order
RECURSIVE Distinct(_)
Distinct(seq) ==
  IF seq = <<>> THEN <<>>
  ELSE LET init == Distinct(SubSeq(seq, 1, Len(seq) - 1))
           last == seq[Len(seq)]
       IN IF \E j \in 1..Len(init) : init[j] = last THEN init ELSE Append(init, last)

(***************************************************************************)
(* Knowledge: predName -> Rule[], a plain object created by {}.  A name    *)
(* that is not an own key is looked up on Object.prototype.                *)
(***************************************************************************)
KnowledgeDefault == <<>>

\* the property names every object literal inherits
ObjectPrototypeNames ==
  {"constructor", "toString", "valueOf", "hasOwnProperty", "__proto__"}

\* knowledge[predName] || [] : an array of rules, or an inherited member
\* (truthy, and not iterable)
KnowledgeGet(knowledge, predName) ==
  IF predName \in DOMAIN knowledge
    THEN [iterable |-> TRUE, rules |-> knowledge[predName]]
  ELSE IF predName \in ObjectPrototypeNames
    THEN [iterable |-> FALSE, rules |-> <<>>]
  ELSE [iterable |-> TRUE, rules |-> <<>>]

\* Knowledge.assume with the new rule put before the old ones
KnowledgeAssumeInFront(knowledge, rule) ==
  LET predName == rule.head.pred
      found == KnowledgeGet(knowledge, predName)
      rules == <<rule>> \o found.rules
  IN IF ~found.iterable THEN [threw |-> TRUE, knowledge |-> knowledge]
     ELSE [threw |-> FALSE, knowledge |-> (predName :> rules) @@ knowledge]

\* Knowledge.assume: the new knowledge, or a TypeError from spreading a value
\* that is not iterable
KnowledgeAssume(knowledge, rule) ==
  LET predName == rule.head.pred
      found == KnowledgeGet(knowledge, predName)
      rules == Append(found.rules, rule)
  IN IF ~found.iterable THEN [threw |-> TRUE, knowledge |-> knowledge]
     ELSE [threw |-> FALSE, knowledge |-> (predName :> rules) @@ knowledge]

RECURSIVE KnowledgeAssumeMany(_, _)
KnowledgeAssumeMany(knowledge, rules) ==
  IF rules = <<>> THEN knowledge
  ELSE KnowledgeAssumeMany(KnowledgeAssume(knowledge, Head(rules)).knowledge,
                           Tail(rules))

KnowledgeRules(knowledge, predName) == KnowledgeGet(knowledge, predName)

(***************************************************************************)
(* The prover.  query, proveCore, proveProp and provePred are generator    *)
(* functions: a call creates a generator object that runs, when its        *)
(* consumer asks for the next value, up to its next yield.  A frame is one *)
(* live generator object: its parameters, its locals and the place it is   *)
(* suspended at.  A generator's consumer is the frame `parent` (0: the     *)
(* caller of query).  The generator a for-of loop of frame j iterates is   *)
(* frame j + 1, but for the inner loop of a conjunction, which iterates    *)
(* frame `right`.                                                          *)
(***************************************************************************)
NoRule == AxiomRule(PredP("", nilTerm))

Frame(k, parent, prop, env, knowledge) ==
  [k |-> k,                 \* "query", "core" (proveCore), "prop", "pred"
   parent |-> parent,
   prop |-> prop, env |-> env, knowledge |-> knowledge,
   pc |-> "start",          \* where the generator is suspended
   i |-> 0,                 \* provePred: index of defaultRule in rules
   rule |-> NoRule,         \* provePred: rule
   env2 |-> EnvDefault,     \* provePred, proveProp: env2; query: localEnv
   cut |-> FALSE,           \* provePred: cut of the last result of the goal
   cut2 |-> FALSE,          \* proveProp: cut2
   right |-> 0,             \* proveProp: the generator of prop.right
   vars |-> <<>>]           \* query: vars

\* ctl.mode: "idle"      no generator exists
\*           "suspended" the query generator waits for its consumer
\*           "resume"    next() is called on frame `at`
\*           "run"       frame `at` goes on inside its body
\*           "yield"     frame `at` is handed the result {env, cut} that
\*                       frame `from` yielded
\*           "done"      frame `at` is told that the generator it iterates
\*                       (frame `from`, discarded) has returned
\*           "finished"  the query generator has returned
\*           "crashed"   an exception has left the query generator
Ctl(mode, at, from, env, cut) ==
  [mode |-> mode, at |-> at, from |-> from, env |-> env, cut |-> cut]
Signal(mode) == Ctl(mode, 0, 0, EnvDefault, FALSE)
Resume(at) == Ctl("resume", at, 0, EnvDefault, FALSE)
Run(at) == Ctl("run", at, 0, EnvDefault, FALSE)
Yield(from, env, cut) ==
  IF stack[from].parent = 0 THEN Ctl("suspended", 0, from, env, cut)
  ELSE Ctl("yield", stack[from].parent, from, env, cut)
Done(from) ==
  IF stack[from].parent = 0 THEN Ctl("finished", 0, from, EnvDefault, FALSE)
  ELSE Ctl("done", stack[from].parent, from, EnvDefault, FALSE)

At(mode, k) ==
  /\ ctl.mode = mode
  /\ ctl.at \in DOMAIN stack
  /\ stack[ctl.at].k = k

\* the stack without frame j and the frames created after it
Discard(j) == SubSeq(stack, 1, j - 1)

IsNil(term) == IsAtom(term) /\ term[2] = nilTerm[2]

\* the dispatch with its test for true left out
IsBuiltinCutOnly(prop) ==
  /\ prop.pred = CutProp.pred
  /\ IsNil(prop.term)

IsBuiltin(prop) ==
  /\ prop.pred \in {CutProp.pred, TrueProp.pred}
  /\ IsNil(prop.term)

\* The frame of the provePred call whose rule body frame j belongs to (0 when
\* j belongs to the query itself), and the frames from it down to j.
RECURSIVE EnclosingPred(_, _)
EnclosingPred(s, j) ==
  IF j = 0 THEN 0
  ELSE IF s[j].k = "pred" THEN j
  ELSE EnclosingPred(s, s[j].parent)

RECURSIVE Ancestors(_, _)
Ancestors(s, j) == IF j = 0 THEN {} ELSE {j} \cup Ancestors(s, s[j].parent)

\* committed, after a step to stack s2: the entries of discarded frames go
Kept(s2) == [p \in {q \in DOMAIN committed : q <= Len(s2)} |-> committed[p]]

\* ---- query ----
\* the assignment of a variable read off its binding, not substituted through
AssignmentOfBinding(localEnv, v) ==
  LET term == IF IsBound(localEnv, v) THEN EnvTryFind(localEnv, v)
              ELSE VarT(v.varName, v.varId)
      unbound == IsVar(term) /\ ~IsBound(localEnv, VarOf(term))
  IN IF unbound THEN [varName |-> v.varName, unbound |-> TRUE]
     ELSE [varName |-> v.varName, term |-> term]

Assignment(localEnv, v) ==
  LET term == EnvSubstitute(localEnv, VarT(v.varName, v.varId))
      unbound == IsVar(term) /\ ~IsBound(localEnv, VarOf(term))
  IN IF unbound THEN [varName |-> v.varName, unbound |-> TRUE]
     ELSE [varName |-> v.varName, term |-> term]

Solution(localEnv, queryVars) ==
  [j \in 1..Len(queryVars) |-> Assignment(localEnv, queryVars[j])]

SolutionOverflows(localEnv, queryVars) ==
  \E j \in 1..Len(queryVars) :
    EnvSubstitute(localEnv, VarT(queryVars[j].varName, queryVars[j].varId)) = Bottom

QueryStart ==
  /\ At("resume", "query") /\ stack[ctl.at].pc = "start"
  /\ count < MaxVarId
  /\ LET f == stack[ctl.at]
         prop == PropRefresh(f.prop, count + 1)
         queryVars == Distinct(PropVars(prop))
     IN /\ count' = count + 1
        /\ stack' = Append([stack EXCEPT ![ctl.at] =
                              [f EXCEPT !.prop = prop, !.vars = queryVars, !.pc = "iter"]],
                           Frame("core", ctl.at, prop, f.env, f.knowledge))
        /\ ctl' = Resume(ctl.at + 1)
  /\ committed' = Kept(stack')
  /\ UNCHANGED <<systems, call, out, uenv, ucall>>

QueryResume ==
  /\ At("resume", "query") /\ stack[ctl.at].pc = "iter"
  /\ ctl' = Resume(ctl.at + 1)
  /\ UNCHANGED <<count, systems, call, stack, out, committed, uenv, ucall>>

QueryYield ==
  /\ At("yield", "query")
  /\ LET f == stack[ctl.at]
     IN IF SolutionOverflows(ctl.env, f.vars)
        THEN /\ ctl' = Signal("crashed")
             /\ UNCHANGED <<stack, out>>
        ELSE /\ stack' = [stack EXCEPT ![ctl.at] = [f EXCEPT !.env2 = ctl.env]]
             /\ out' = Append(out, Solution(ctl.env, f.vars))
             /\ ctl' = Yield(ctl.at, ctl.env, FALSE)
  /\ UNCHANGED <<count, systems, call, committed, uenv, ucall>>

QueryDone ==
  /\ At("done", "query")
  /\ ctl' = Done(ctl.at)
  /\ stack' = [stack EXCEPT ![ctl.at] = [@ EXCEPT !.pc = "returned"]]
  /\ UNCHANGED <<count, systems, call, out, committed, uenv, ucall>>

\* ---- proveCore ----
CoreStart ==
  /\ At("resume", "core") /\ stack[ctl.at].pc = "start"
  /\ LET f == stack[ctl.at]
     IN stack' = Append([stack EXCEPT ![ctl.at] = [f EXCEPT !.pc = "iter"]],
                        Frame("prop", ctl.at, f.prop, f.env, f.knowledge))
  /\ ctl' = Resume(ctl.at + 1)
  /\ committed' = Kept(stack')
  /\ UNCHANGED <<count, systems, call, out, uenv, ucall>>

CoreResume ==
  /\ At("resume", "core") /\ stack[ctl.at].pc = "iter"
  /\ ctl' = Resume(ctl.at + 1)
  /\ UNCHANGED <<count, systems, call, stack, out, committed, uenv, ucall>>

CoreYield ==
  /\ At("yield", "core")
  /\ ctl' = Yield(ctl.at, ctl.env, FALSE)
  /\ UNCHANGED <<count, systems, call, stack, out, committed, uenv, ucall>>

CoreDone ==
  /\ At("done", "core")
  /\ stack' = Discard(ctl.at)
  /\ ctl' = Done(ctl.at)
  /\ committed' = Kept(stack')
  /\ UNCHANGED <<count, systems, call, out, uenv, ucall>>

\* ---- proveProp, 'pred' in prop ----
PropStart ==
  /\ At("resume", "prop") /\ stack[ctl.at].pc = "start"
  /\ IsPredProp(stack[ctl.at].prop)
  /\ LET f == stack[ctl.at]
     IN stack' = Append([stack EXCEPT ![ctl.at] = [f EXCEPT !.pc = "iter"]],
                        Frame("pred", ctl.at, f.prop, f.env, f.knowledge))
  /\ ctl' = Resume(ctl.at + 1)
  /\ committed' = Kept(stack')
  /\ UNCHANGED <<count, systems, call, out, uenv, ucall>>

PropResume ==
  /\ At("resume", "prop") /\ stack[ctl.at].pc = "iter"
  /\ ctl' = Resume(ctl.at + 1)
  /\ UNCHANGED <<count, systems, call, stack, out, committed, uenv, ucall>>

PropYield ==
  /\ At("yield", "prop") /\ stack[ctl.at].pc = "iter"
  /\ ctl' = Yield(ctl.at, ctl.env, ctl.cut)
  /\ UNCHANGED <<count, systems, call, stack, out, committed, uenv, ucall>>

PropDone ==
  /\ At("done", "prop") /\ stack[ctl.at].pc = "iter"
  /\ stack' = Discard(ctl.at)
  /\ ctl' = Done(ctl.at)
  /\ committed' = Kept(stack')
  /\ UNCHANGED <<count, systems, call, out, uenv, ucall>>

\* ---- proveProp, 'left' in prop ----
ConjStart ==
  /\ At("resume", "prop") /\ stack[ctl.at].pc = "start"
  /\ ~IsPredProp(stack[ctl.at].prop)
  /\ LET f == stack[ctl.at]
     IN stack' = Append([stack EXCEPT ![ctl.at] = [f EXCEPT !.pc = "left"]],
                        Frame("prop", ctl.at, f.prop.left, f.env, f.knowledge))
  /\ ctl' = Resume(ctl.at + 1)
  /\ committed' = Kept(stack')
  /\ UNCHANGED <<count, systems, call, out, uenv, ucall>>

\* a result of prop.left: the inner loop starts on prop.right under env2
ConjLeftYield ==
  /\ At("yield", "prop") /\ stack[ctl.at].pc = "left"
  /\ LET f == stack[ctl.at]
     IN stack' = Append([stack EXCEPT ![ctl.at] =
                           [f EXCEPT !.env2 = ctl.env, !.cut2 = ctl.cut,
                                     !.right = Len(stack) + 1, !.pc = "right"]],
                        Frame("prop", ctl.at, f.prop.right, ctl.env, f.knowledge))
  /\ ctl' = Resume(Len(stack) + 1)
  /\ committed' = Kept(stack')
  /\ UNCHANGED <<count, systems, call, out, uenv, ucall>>

\* a result {env3, cut3} of prop.right
ConjRightYield ==
  /\ At("yield", "prop") /\ stack[ctl.at].pc = "right"
  /\ ctl' = Yield(ctl.at, ctl.env, stack[ctl.at].cut2 \/ ctl.cut)
  /\ UNCHANGED <<count, systems, call, stack, out, committed, uenv, ucall>>

ConjResume ==
  /\ At("resume", "prop") /\ stack[ctl.at].pc = "right"
  /\ ctl' = Resume(stack[ctl.at].right)
  /\ UNCHANGED <<count, systems, call, stack, out, committed, uenv, ucall>>

\* the inner loop has ended: the outer loop asks prop.left for its next result
ConjRightDone ==
  /\ At("done", "prop") /\ stack[ctl.at].pc = "right"
  /\ stack' = [stack EXCEPT ![ctl.at] = [@ EXCEPT !.right = 0, !.pc = "left"]]
  /\ ctl' = Resume(ctl.at + 1)
  /\ UNCHANGED <<count, systems, call, out, committed, uenv, ucall>>

ConjLeftDone ==
  /\ At("done", "prop") /\ stack[ctl.at].pc = "left"
  /\ stack' = Discard(ctl.at)
  /\ ctl' = Done(ctl.at)
  /\ committed' = Kept(stack')
  /\ UNCHANGED <<count, systems, call, out, uenv, ucall>>

\* ---- provePred ----
\* Build-in predicates: one result, env as it came
PredBuiltin ==
  /\ At("resume", "pred") /\ stack[ctl.at].pc = "start"
  /\ IsBuiltin(stack[ctl.at].prop)
  /\ LET f == stack[ctl.at]
         isCut == f.prop.pred = CutProp.pred
         p == EnclosingPred(stack, f.parent)
     IN /\ ctl' = Yield(ctl.at, f.env, isCut)
        /\ stack' = [stack EXCEPT ![ctl.at] = [f EXCEPT !.pc = "ret"]]
        /\ committed' =
             IF isCut /\ p # 0
             THEN (p :> [i |-> stack[p].i, at |-> ctl.at,
                         path |-> Ancestors(stack, ctl.at)]) @@ committed
             ELSE committed
  /\ UNCHANGED <<count, systems, call, out, uenv, ucall>>

\* the return after a built-in's yield
PredReturn ==
  /\ At("resume", "pred") /\ stack[ctl.at].pc = "ret"
  /\ stack' = Discard(ctl.at)
  /\ ctl' = Done(ctl.at)
  /\ committed' = Kept(stack')
  /\ UNCHANGED <<count, systems, call, out, uenv, ucall>>

\* const rules = Knowledge.rules(knowledge, prop.pred), and into the loop
PredEnter ==
  /\ At("resume", "pred") /\ stack[ctl.at].pc = "start"
  /\ ~IsBuiltin(stack[ctl.at].prop)
  /\ LET f == stack[ctl.at]
     IN IF KnowledgeRules(f.knowledge, f.prop.pred).iterable
        THEN /\ stack' = [stack EXCEPT ![ctl.at] = [f EXCEPT !.pc = "loop"]]
             /\ ctl' = Run(ctl.at)
        ELSE /\ ctl' = Signal("crashed")
             /\ UNCHANGED stack
  /\ UNCHANGED <<count, systems, call, out, committed, uenv, ucall>>

\* the loop over rules has no next rule
PredExhausted ==
  /\ At("run", "pred")
  /\ LET f == stack[ctl.at]
     IN f.i = Len(KnowledgeRules(f.knowledge, f.prop.pred).rules)
  /\ stack' = Discard(ctl.at)
  /\ ctl' = Done(ctl.at)
  /\ committed' = Kept(stack')
  /\ UNCHANGED <<count, systems, call, out, uenv, ucall>>

\* one turn of the loop over rules, up to its continue, its yield, or the
\* call of proveProp on the goal
PredTryRule ==
  /\ At("run", "pred")
  /\ count < MaxVarId
  /\ LET f == stack[ctl.at]
         rules == KnowledgeRules(f.knowledge, f.prop.pred).rules
     IN /\ f.i < Len(rules)
        /\ LET rule == RuleRefresh(rules[f.i + 1], count + 1)
               env2 == EnvTryUnify(f.env, f.prop.term, rule.head.term)
               g == [f EXCEPT !.i = f.i + 1, !.rule = rule, !.cut = FALSE,
                              !.env2 = IF env2.st = "ok" THEN env2.env ELSE EnvDefault]
           IN /\ count' = count + 1
              /\ CASE env2.st = "diverge" ->
                        /\ ctl' = Signal("crashed")
                        /\ UNCHANGED stack
                   [] env2.st = "undefined" ->
                        /\ stack' = [stack EXCEPT ![ctl.at] = g]
                        /\ ctl' = Run(ctl.at)
                   [] env2.st = "ok" /\ ~HasGoal(rule) ->
                        /\ stack' = [stack EXCEPT ![ctl.at] = g]
                        /\ ctl' = Yield(ctl.at, env2.env, FALSE)
                   [] env2.st = "ok" /\ HasGoal(rule) ->
                        /\ stack' = Append([stack EXCEPT ![ctl.at] = [g EXCEPT !.pc = "goal"]],
                                           Frame("prop", ctl.at, rule.goal, env2.env,
                                                 f.knowledge))
                        /\ ctl' = Resume(ctl.at + 1)
  /\ committed' = Kept(stack')
  /\ UNCHANGED <<systems, call, out, uenv, ucall>>

\* resumed after the yield of an axiom's result: continue
PredResumeLoop ==
  /\ At("resume", "pred") /\ stack[ctl.at].pc = "loop"
  /\ ctl' = Run(ctl.at)
  /\ UNCHANGED <<count, systems, call, stack, out, committed, uenv, ucall>>

\* provePred yielding the goal's result with its cut as it came
PredGoalYieldUnmasked ==
  /\ At("yield", "pred") /\ stack[ctl.at].pc = "goal"
  /\ stack' = [stack EXCEPT ![ctl.at] = [@ EXCEPT !.cut = ctl.cut]]
  /\ ctl' = Yield(ctl.at, ctl.env, ctl.cut)
  /\ UNCHANGED <<count, systems, call, out, committed, uenv, ucall>>

\* a result {env3, cut} of the goal: yield {env: env3, cut: false}
PredGoalYield ==
  /\ At("yield", "pred") /\ stack[ctl.at].pc = "goal"
  /\ stack' = [stack EXCEPT ![ctl.at] = [@ EXCEPT !.cut = ctl.cut]]
  /\ ctl' = Yield(ctl.at, ctl.env, FALSE)
  /\ UNCHANGED <<count, systems, call, out, committed, uenv, ucall>>

\* resumed after that yield, cut false: the next result of the goal
PredResumeGoal ==
  /\ At("resume", "pred") /\ stack[ctl.at].pc = "goal"
  /\ ~stack[ctl.at].cut
  /\ ctl' = Resume(ctl.at + 1)
  /\ UNCHANGED <<count, systems, call, stack, out, committed, uenv, ucall>>

\* resumed after that yield, cut true: return
\* a resumed provePred going on with its goal whatever cut is
PredCutIgnored ==
  /\ At("resume", "pred") /\ stack[ctl.at].pc = "goal"
  /\ stack[ctl.at].cut
  /\ ctl' = Resume(ctl.at + 1)
  /\ UNCHANGED <<count, systems, call, stack, out, committed, uenv, ucall>>

PredCutReturn ==
  /\ At("resume", "pred") /\ stack[ctl.at].pc = "goal"
  /\ stack[ctl.at].cut
  /\ stack' = Discard(ctl.at)
  /\ ctl' = Done(ctl.at)
  /\ committed' = Kept(stack')
  /\ UNCHANGED <<count, systems, call, out, uenv, ucall>>

\* the goal has no more results: the next rule
PredGoalDone ==
  /\ At("done", "pred") /\ stack[ctl.at].pc = "goal"
  /\ stack' = [stack EXCEPT ![ctl.at] = [@ EXCEPT !.pc = "loop"]]
  /\ ctl' = Run(ctl.at)
  /\ UNCHANGED <<count, systems, call, out, committed, uenv, ucall>>

(***************************************************************************)
(* The rules and queries the model is run on.                              *)
(***************************************************************************)
x == free("x")
y == free("y")
A(name) == AtomT(name)
Fact(pred, term) == AxiomRule(PredP(pred, term))
Nullary(pred) == PredP(pred, nilTerm)

\* the test suite's syllogism
major == InferRule(PredP("mortal", x), PredP("human", x))
minor == Fact("human", A("socrates"))
platoRule == Fact("human", A("plato"))
Syllogism == <<major, minor, platoRule>>

\* p :- !, q.  p :- r.  r.  q.
CutFirst ==
  <<InferRule(Nullary("p"), ConjP(CutProp, Nullary("q"))),
    InferRule(Nullary("p"), Nullary("r")),
    AxiomRule(Nullary("r")),
    AxiomRule(Nullary("q"))>>

\* the test suite's 'detects unbound vars'
Unknown == <<Fact("unknown", x), Fact("unknown", A("a"))>>

\* cuts below a caller, behind and before other goals
CutScope ==
  <<Fact("item", A("a")),
    Fact("item", A("b")),
    InferRule(PredP("first", x), ConjP(PredP("item", x), CutProp)),
    Fact("first", A("c")),
    InferRule(PredP("top", x), PredP("first", x)),
    Fact("top", A("d")),
    InferRule(PredP("once", x), ConjP(CutProp, PredP("item", x))),
    InferRule(PredP("mid", x),
              ConjP(ConjP(PredP("item", x), CutProp), PredP("item", y)))>>

\* rules under the built-ins' names
BuiltinNames ==
  <<Fact("true", x),
    Fact("!", x),
    InferRule(Nullary("ok"), ConjP(TrueProp, PredP("true", A("a"))))>>

\* a recursive predicate
NatRules ==
  <<Fact("nat", A("0")),
    InferRule(PredP("nat", AppT("succ", x)), PredP("nat", x))>>

\* unify(X, X)
Same == <<Fact("same", ConsT(x, x))>>

\* rules whose head names no predicate, or a member of Object.prototype
OddNames == <<AxiomRule(Nullary("")), AxiomRule(Nullary("constructor"))>>

Programs ==
  {Syllogism, CutFirst, Unknown, CutScope, BuiltinNames, NatRules, Same, OddNames}

Queries ==
  {PredP("mortal", x), PredP("mortal", A("socrates")),
   Nullary("p"),
   PredP("unknown", y),
   PredP("top", x), PredP("once", x), PredP("mid", x),
   ConjP(PredP("item", y), ConjP(PredP("item", x), PredP("item", y))),
   TrueProp, CutProp, PredP("true", A("a")), PredP("!", A("a")), Nullary("ok"),
   PredP("nat", y), PredP("nat", AppT("succ", AppT("succ", A("0")))),
   PredP("same", ConsT(x, y)), PredP("same", ConsT(y, AppT("f", y))),
   Nullary("toString")}

(***************************************************************************)
(* The facade (ImplProofSystem) and its caller.                            *)
(***************************************************************************)
Current == systems[Len(systems)]

\* the caller builds its knowledge rule by rule, as assumeMany does
NextRuleOf(program) ==
  /\ Len(systems) <= Len(program)
  /\ Current = KnowledgeAssumeMany(KnowledgeDefault,
                                   SubSeq(program, 1, Len(systems) - 1))

\* ImplProofSystem.assume
Assume(rule) ==
  /\ ctl.mode = "idle"
  /\ LET r == KnowledgeAssume(Current, rule)
     IN /\ systems' = IF r.threw THEN systems ELSE Append(systems, r.knowledge)
        /\ call' = [op |-> "assume", rule |-> rule, threw |-> r.threw]
  /\ UNCHANGED <<count, stack, ctl, out, committed, uenv, ucall>>

\* ImplProofSystem.query: the generator object, not yet run
StartQuery(prop) ==
  /\ ctl.mode = "idle"
  /\ stack' = <<Frame("query", 0, prop, EnvDefault, Current)>>
  /\ ctl' = Signal("suspended")
  /\ out' = <<>>
  /\ call' = [op |-> "query", prop |-> prop]
  /\ UNCHANGED <<count, systems, committed, uenv, ucall>>

\* the consumer asks for the next solution
Pull ==
  /\ ctl.mode = "suspended"
  /\ ctl' = Resume(1)
  /\ UNCHANGED <<count, systems, call, stack, out, committed, uenv, ucall>>

\* the consumer lets go of the generator: finished, failed, or no longer wanted
Close ==
  /\ ctl.mode \in {"suspended", "finished", "crashed"}
  /\ stack' = <<>>
  /\ ctl' = Signal("idle")
  /\ out' = <<>>
  /\ committed' = <<>>
  /\ UNCHANGED <<count, systems, call, uenv, ucall>>

Init ==
  /\ count = 0
  /\ systems = <<KnowledgeDefault>>
  /\ call = [op |-> "none"]
  /\ stack = <<>>
  /\ ctl = Signal("idle")
  /\ out = <<>>
  /\ committed = <<>>
  /\ InitUnify

Step ==
  \/ QueryStart \/ QueryResume \/ QueryYield \/ QueryDone
  \/ CoreStart \/ CoreResume \/ CoreYield \/ CoreDone
  \/ PropStart \/ PropResume \/ PropYield \/ PropDone
  \/ ConjStart \/ ConjLeftYield \/ ConjRightYield \/ ConjResume
  \/ ConjRightDone \/ ConjLeftDone
  \/ PredBuiltin \/ PredReturn \/ PredEnter \/ PredExhausted \/ PredTryRule
  \/ PredResumeLoop \/ PredGoalYield \/ PredResumeGoal \/ PredCutReturn
  \/ PredGoalDone

Next ==
  \/ \E program \in Programs :
       NextRuleOf(program) /\ Assume(program[Len(systems)])
  \/ \E prop \in Queries : StartQuery(prop)
  \/ Pull
  \/ Close
  \/ Step

Spec == Init /\ [][Next]_vars

NextUnify ==
  \E left \in UTerms, right \in UTerms :
    /\ UnifyCall(left, right)
    /\ UNCHANGED <<count, systems, call, stack, ctl, out, committed>>

SpecUnify == Init /\ [][NextUnify]_vars

(***************************************************************************)
(* Properties.                                                             *)
(***************************************************************************)

\* C1 as stated: whenever Env.tryUnify returns an Env for terms a and b,
\* Env.substitute under that Env gives one and the same term for a and for b.
C1_UnifySoundAlways ==
  ucall.st = "ok" =>
    /\ EnvSubstitute(uenv, ucall.left) # Bottom
    /\ EnvSubstitute(uenv, ucall.right) # Bottom
    /\ EnvSubstitute(uenv, ucall.left) = EnvSubstitute(uenv, ucall.right)

\* C1, amended: whenever Env.tryUnify returns an Env for terms a and b, and
\* Env.substitute under that Env returns for a or for b, it returns for both
\* and gives the same term.
C1_UnifySound ==
  (/\ ucall.st = "ok"
   /\ \/ EnvSubstitute(uenv, ucall.left) # Bottom
      \/ EnvSubstitute(uenv, ucall.right) # Bottom)
  => /\ EnvSubstitute(uenv, ucall.left) # Bottom
     /\ EnvSubstitute(uenv, ucall.left) = EnvSubstitute(uenv, ucall.right)

\* C1 witness: a second successful call, on two different lists, from an Env
\* that the first call has filled; both lists substitute to one ground list.
C1_Witness ==
  /\ ucall.n = 2 /\ ucall.st = "ok"
  /\ ucall.left = listTerm(free("x"), AtomT("plato"))
  /\ ucall.right = listTerm(AtomT("socrates"), free("y"))
  /\ IsBound(uenv, VarOf(free("x"))) /\ IsBound(uenv, VarOf(free("y")))
  /\ EnvSubstitute(uenv, ucall.left) = listTerm(AtomT("socrates"), AtomT("plato"))

(***************************************************************************)
(* The depth-first, left-to-right enumeration, written out as the list of  *)
(* results of a proposition: the rules of a predicate are taken in the     *)
(* order in which assume received them, a conjunction gives, for each      *)
(* result of its left part in turn, the results of its right part, and the *)
(* results of a rule body end with the first one that carries a cut.       *)
(***************************************************************************)
\* the rules the caller has assumed into the current system, in order
Inserted ==
  CHOOSE rules \in {SubSeq(program, 1, Len(systems) - 1) :
                      program \in {q \in Programs : Len(q) >= Len(systems) - 1}} :
    Current = KnowledgeAssumeMany(KnowledgeDefault, rules)

InsertedFor(inserted, pred) == SelectSeq(inserted, LAMBDA rule : rule.head.pred = pred)

\* the index of the first result that carries a cut, 0 when none does
FirstCut(results) ==
  IF \E j \in 1..Len(results) : results[j].cut
  THEN CHOOSE j \in 1..Len(results) :
         results[j].cut /\ \A h \in 1..(j - 1) : ~results[h].cut
  ELSE 0

Masked(results) == [j \in 1..Len(results) |-> [env |-> results[j].env, cut |-> FALSE]]

RECURSIVE DfsProp(_, _, _, _)
RECURSIVE DfsRules(_, _, _, _, _)
RECURSIVE DfsRight(_, _, _, _, _)
\* the results of prop under env, with n the last variable id handed out
DfsProp(prop, env, inserted, n) ==
  IF IsPredProp(prop) THEN
    IF prop = CutProp THEN [res |-> <<[env |-> env, cut |-> TRUE]>>, n |-> n]
    ELSE IF prop = TrueProp THEN [res |-> <<[env |-> env, cut |-> FALSE]>>, n |-> n]
    ELSE DfsRules(prop, env, inserted, 1, n)
  ELSE
    LET l == DfsProp(prop.left, env, inserted, n)
    IN DfsRight(prop.right, l.res, 1, inserted, l.n)

\* the results of prop.right under the results j.. of prop.left
DfsRight(right, lres, j, inserted, n) ==
  IF j > Len(lres) THEN [res |-> <<>>, n |-> n]
  ELSE LET r == DfsProp(right, lres[j].env, inserted, n)
           rest == DfsRight(right, lres, j + 1, inserted, r.n)
       IN [res |-> [h \in 1..Len(r.res) |->
                      [env |-> r.res[h].env, cut |-> lres[j].cut \/ r.res[h].cut]]
                   \o rest.res,
           n |-> rest.n]

\* the results of the atomic prop by its rules i..
DfsRules(prop, env, inserted, i, n) ==
  LET rules == InsertedFor(inserted, prop.pred)
  IN IF i > Len(rules) THEN [res |-> <<>>, n |-> n]
     ELSE
       LET rule == RuleRefresh(rules[i], n + 1)
           u == EnvTryUnify(env, prop.term, rule.head.term)
       IN IF u.st # "ok" THEN DfsRules(prop, env, inserted, i + 1, n + 1)
          ELSE IF ~HasGoal(rule) THEN
            LET rest == DfsRules(prop, env, inserted, i + 1, n + 1)
            IN [res |-> <<[env |-> u.env, cut |-> FALSE]>> \o rest.res, n |-> rest.n]
          ELSE
            LET body == DfsProp(rule.goal, u.env, inserted, n + 1)
                c == FirstCut(body.res)
            IN IF c > 0 THEN [res |-> Masked(SubSeq(body.res, 1, c)), n |-> body.n]
               ELSE LET rest == DfsRules(prop, env, inserted, i + 1, body.n)
                    IN [res |-> Masked(body.res) \o rest.res, n |-> rest.n]

\* a solution with the ids of the variables in its terms set to 0: two
\* enumerations number their rule instances apart
Unnumbered(solution) ==
  [j \in 1..Len(solution) |->
     IF "term" \in DOMAIN solution[j]
     THEN [varName |-> solution[j].varName, term |-> TermWithVarId(solution[j].term, 0)]
     ELSE solution[j]]

DfsSolutions(prop, inserted) ==
  LET renamed == PropWithVarId(prop, 1)
      queryVars == Distinct(PropVars(renamed))
      results == DfsProp(renamed, EnvDefault, inserted, 1).res
  IN [j \in 1..Len(results) |-> Unnumbered(Solution(results[j].env, queryVars))]

\* C2: when a query has run to its end, the solutions it has emitted are, in
\* order, the depth-first left-to-right enumeration with the rules of each
\* goal taken in the order of their insertion by assume.
C2_SolutionOrder ==
  ctl.mode = "finished" =>
    [j \in 1..Len(out) |-> Unnumbered(out[j])] = DfsSolutions(call.prop, Inserted)

\* C2 witness: human(socrates) was inserted before human(plato), and the
\* query mortal(x) has ended with x = socrates, then x = plato.
C2_Witness ==
  /\ ctl.mode = "finished"
  /\ Inserted = Syllogism
  /\ call.prop = PredP("mortal", x)
  /\ out = << <<[varName |-> "x", term |-> A("socrates")]>>,
              <<[varName |-> "x", term |-> A("plato")]>> >>

\* C3 as stated: once the ! in the body of the rule selected for a goal P
\* has been proved, (b) P stays with that rule and (a) no goal to the left of
\* that ! in the body is asked for another solution, whatever follows the !.
C3_CutCommits ==
  \A p \in DOMAIN committed :
    /\ stack[p].i = committed[p].i
    /\ ~(/\ ctl.mode \in {"resume", "run"}
         /\ ctl.at > p /\ ctl.at < committed[p].at
         /\ ctl.at \notin committed[p].path)

\* C4: a result that provePred yields for a predicate other than the
\* built-ins carries cut = false, and a provePred call holds cut = true, the
\* flag that ends its enumeration, only for a ! of its own current rule body.
C4_CutScoped ==
  /\ (/\ ctl.mode = "yield"
      /\ stack[ctl.from].k = "pred"
      /\ stack[ctl.from].prop \notin {CutProp, TrueProp})
     => ~ctl.cut
  /\ \A p \in DOMAIN stack :
       (stack[p].k = "pred" /\ stack[p].cut)
       => (p \in DOMAIN committed /\ committed[p].i = stack[p].i)

\* C4 witness: the call for Q = first(x), made from the body of a rule of
\* P = top(x) which has a later rule, yields the result of a body of Q
\* whose ! was proved.
C4_Witness ==
  /\ ctl.mode = "yield"
  /\ stack[ctl.from].k = "pred"
  /\ stack[ctl.from].prop.pred = "first"
  /\ stack[ctl.from].cut
  /\ LET p == EnclosingPred(stack, ctl.at)
     IN /\ p # 0
        /\ stack[p].prop.pred = "top"
        /\ stack[p].i < Len(KnowledgeRules(stack[p].knowledge, "top").rules)

\* the variables of the query as query renamed them
QueryOccurrences == PropVars(stack[1].prop)

FirstOccurrence(occurrences, varName) ==
  CHOOSE h \in 1..Len(occurrences) :
    /\ occurrences[h].varName = varName
    /\ \A g \in 1..(h - 1) : occurrences[g].varName # varName

C6_AssumeValidates ==
  /\ (call.op = "assume" /\ call.rule.head.pred = "") => call.threw
  /\ \A k \in DOMAIN systems : "" \notin DOMAIN systems[k]

\* predicate names the caller may ask about
ProbeNames ==
  {rule.head.pred : rule \in UNION {{program[j] : j \in 1..Len(program)} :
                                      program \in Programs}}
    \cup {q.pred : q \in {r \in Queries : IsPredProp(r)}}

EmptyList == [iterable |-> TRUE, rules |-> <<>>]

\* C7 as stated: after assume(kb, r), the rules of r.head.pred are those of
\* kb with r appended at the end, the rules of every other predicate are
\* those of kb, kb itself is as it was, and rules(kb, p) is the empty list
\* for every predicate p that was never assumed.
C7_AssumeAppends ==
  call.op = "assume" =>
    /\ ~call.threw
    /\ Len(systems) >= 2
    /\ LET kb == systems[Len(systems) - 1]
           pred == call.rule.head.pred
       IN /\ KnowledgeRules(Current, pred)
               = [iterable |-> TRUE,
                  rules |-> Append(KnowledgeRules(kb, pred).rules, call.rule)]
          /\ \A p \in ProbeNames \ {pred} :
               KnowledgeRules(Current, p) = KnowledgeRules(kb, p)
          /\ kb = KnowledgeAssumeMany(KnowledgeDefault,
                                      SubSeq(Inserted, 1, Len(Inserted) - 1))
          /\ \A p \in ProbeNames :
               InsertedFor(SubSeq(Inserted, 1, Len(Inserted) - 1), p) = <<>>
                 => KnowledgeRules(kb, p) = EmptyList

\* C8 as stated: a goal whose predicate name is ! or true, whatever its
\* argument, takes no rule from the knowledge; the results it yields leave
\* the env unchanged and carry cut = true for !, cut = false for true.
C8_BuiltinNamesFixed ==
  \A j \in DOMAIN stack :
    (stack[j].k = "pred" /\ stack[j].prop.pred \in {CutProp.pred, TrueProp.pred})
    => /\ stack[j].i = 0
       /\ (ctl.mode = "yield" /\ ctl.from = j)
          => (ctl.env = stack[j].env /\ ctl.cut = (stack[j].prop.pred = CutProp.pred))

BuiltinFrame(j) == stack[j].k = "pred" /\ stack[j].prop \in {CutProp, TrueProp}

C8_BuiltinState ==
  \A j \in DOMAIN stack :
    BuiltinFrame(j)
    => /\ stack[j].pc \in {"start", "ret"}
       /\ stack[j].i = 0 /\ stack[j].rule = NoRule
       /\ (ctl.mode = "yield" /\ ctl.from = j)
          => /\ stack[j].pc = "ret"
             /\ ctl.env = stack[j].env
             /\ ctl.cut = (stack[j].prop = CutProp)

C8_BuiltinStep ==
  \A j \in DOMAIN stack :
    (BuiltinFrame(j) /\ ctl.mode = "resume" /\ ctl.at = j)
    => IF stack[j].pc = "start"
       THEN /\ ctl'.mode = "yield" /\ ctl'.from = j
            /\ stack' = [stack EXCEPT ![j] = [@ EXCEPT !.pc = "ret"]]
       ELSE /\ ctl'.mode = "done" /\ ctl'.from = j
            /\ stack' = SubSeq(stack, 1, j - 1)

\* C8, for the goals !(nil) and true(nil): for every knowledge, one that has
\* rules named ! or true included, the goal takes no rule from the
\* knowledge; it yields one result, with the env unchanged and cut = true
\* for !, cut = false for true, and returns when asked for another.
C8_BuiltinsFixed == []C8_BuiltinState /\ [][C8_BuiltinStep]_vars

\* C8 witness: the knowledge has the rule !(x) and the goal !(nil) yields.
C8_Witness ==
  /\ ctl.mode = "yield"
  /\ stack[ctl.from].k = "pred"
  /\ stack[ctl.from].prop = CutProp
  /\ KnowledgeRules(stack[ctl.from].knowledge, CutProp.pred).rules # <<>>
  /\ ctl.cut

PropVarSet(prop) == {PropVars(prop)[h] : h \in 1..Len(PropVars(prop))}

RuleVarSet(rule) ==
  PropVarSet(rule.head) \cup (IF HasGoal(rule) THEN PropVarSet(rule.goal) ELSE {})

\* the live provePred calls that hold an instantiated rule
Instantiations == {j \in DOMAIN stack : stack[j].k = "pred" /\ stack[j].i > 0}

QueryRefreshed(s) == s # <<>> /\ s[1].k = "query" /\ s[1].pc # "start"

OneId(varSet, n) ==
  /\ \A v \in varSet : v.varId \in 1..n
  /\ \A v \in varSet, w \in varSet :
       v.varId = w.varId /\ (v.varName = w.varName => v = w)

C9_FreshState ==
  /\ \A j \in Instantiations : OneId(RuleVarSet(stack[j].rule), count)
  /\ \A j \in Instantiations, k \in Instantiations :
       j # k => RuleVarSet(stack[j].rule) \cap RuleVarSet(stack[k].rule) = {}
  /\ QueryRefreshed(stack)
     => /\ OneId(PropVarSet(stack[1].prop), count)
        /\ \A j \in Instantiations :
             RuleVarSet(stack[j].rule) \cap PropVarSet(stack[1].prop) = {}

C9_FreshStep ==
  /\ count' \in {count, count + 1}
  /\ \A j \in DOMAIN stack' :
       (/\ stack'[j].k = "pred" /\ stack'[j].i > 0
        /\ j \in DOMAIN stack /\ stack[j].i # stack'[j].i)
       => /\ count' = count + 1
          /\ \A v \in RuleVarSet(stack'[j].rule) : v.varId = count'
  /\ (QueryRefreshed(stack') /\ ~QueryRefreshed(stack))
     => /\ count' = count + 1
        /\ \A v \in PropVarSet(stack'[1].prop) : v.varId = count'

\* C9: the counter never decreases; every rule instantiation and every
\* renamed query takes the counter's next value and carries it on all its
\* variables, so the instantiations that are live, and the query, have
\* pairwise disjoint variable sets with ids the counter has handed out, and
\* one name inside one instantiation is one variable.
C9_FreshRenaming == []C9_FreshState /\ [][C9_FreshStep]_vars

\* C9 witness: two live instantiations of the same rule, with variables.
C9_Witness ==
  \E j \in Instantiations, k \in Instantiations :
    /\ j < k
    /\ stack[j].prop.pred = stack[k].prop.pred
    /\ stack[j].i = stack[k].i
    /\ RuleVarSet(stack[j].rule) # {}
    /\ RuleVarSet(stack[k].rule) # {}

\* a provePred call suspended after yielding a result whose cut was true
CutPending(p) == stack[p].k = "pred" /\ stack[p].pc = "goal" /\ stack[p].cut

C10_CutStep ==
  /\ \A p \in DOMAIN stack :
       (ctl.mode = "yield" /\ ctl.at = p /\ stack[p].k = "pred" /\ ctl.cut)
       => /\ ctl'.mode \in {"yield", "suspended"}
          /\ ctl'.from = p /\ ctl'.env = ctl.env
          /\ p \in DOMAIN stack' /\ CutPending(p)'
  /\ \A p \in DOMAIN stack :
       CutPending(p)
       => IF ctl.mode = "resume" /\ ctl.at = p
          THEN /\ stack' = SubSeq(stack, 1, p - 1)
               /\ ctl'.mode \in {"done", "finished"} /\ ctl'.from = p
          ELSE \/ Len(stack') < p
               \/ /\ \A j \in DOMAIN stack :
                       p \in Ancestors(stack, j)
                       => (j \in DOMAIN stack' /\ stack'[j] = stack[j])
                  /\ \A j \in DOMAIN stack' :
                       (j > p /\ p \in Ancestors(stack', j)) => j \in DOMAIN stack
                  /\ ctl'.at \in DOMAIN stack' /\ p \in Ancestors(stack', ctl'.at)
                     => (ctl'.at = p /\ ctl'.mode = "resume")

\* C10: a provePred call that is handed a result of its rule's body with
\* cut = true yields that result; when it is next resumed it returns, and
\* it is discarded with every generator under it, so that body gives no
\* further result and no later rule is taken; until then nothing under it
\* runs.
C10_StopAfterCut == [][C10_CutStep]_vars

\* C10 witness: such a call is resumed while a later rule for its goal
\* remains.
C10_Witness ==
  /\ ctl.mode = "resume" /\ ctl.at \in DOMAIN stack
  /\ CutPending(ctl.at)
  /\ stack[ctl.at].i
       < Len(KnowledgeRules(stack[ctl.at].knowledge, stack[ctl.at].prop.pred).rules)

\* the variables an env binds
BoundVars(env) ==
  {v \in [varName : DOMAIN env, varId : UNION {DOMAIN env[m] : m \in DOMAIN env}] :
     IsBound(env, v)}

\* Where following variable-to-variable bindings from a term ends: at an
\* unbound variable, at a term that is no variable, or nowhere (Bottom) when
\* a variable comes up a second time.
RECURSIVE ChainEnd(_, _, _)
ChainEnd(env, term, visited) ==
  IF ~IsVar(term) THEN term
  ELSE IF ~IsBound(env, VarOf(term)) THEN term
  ELSE IF VarOf(term) \in visited THEN Bottom
  ELSE ChainEnd(env, EnvTryFind(env, VarOf(term)), visited \cup {VarOf(term)})

\* C11: in every env that successful tryUnify calls have built from the
\* empty env, no variable is bound to itself, and following
\* variable-to-variable bindings from any variable visits no variable twice:
\* it ends at an unbound variable, which is then what substitute returns for
\* the variable, or at a term that is no variable.
C11_NoVarCycles ==
  \A v \in BoundVars(uenv) \cup {VarOf(t) : t \in {u \in ULeaves : IsVar(u)}} :
    LET term == VarT(v.varName, v.varId)
        end == ChainEnd(uenv, term, {})
    IN /\ IsBound(uenv, v) => EnvTryFind(uenv, v) # term
       /\ end # Bottom
       /\ IsVar(end) => (~IsBound(uenv, VarOf(end)) /\ EnvSubstitute(uenv, term) = end)

\* C11 witness: with x bound to y, tryUnify(env, y, x) succeeds and binds
\* nothing: bind has refused y := y.
C11_Witness ==
  /\ ucall.n = 2 /\ ucall.st = "ok"
  /\ ucall.left = free("y") /\ ucall.right = free("x")
  /\ IsBound(uenv, VarOf(free("x")))
  /\ EnvTryFind(uenv, VarOf(free("x"))) = free("y")
  /\ ~IsBound(uenv, VarOf(free("y")))

====
